---- MODULE Spec2Model ----
(***************************************************************************)
(* A model of the analysis orchestration of chess_playalong (src/app.js):  *)
(* the debounced analysis request, the Stockfish message handlers, the     *)
(* ranked display, the explanation cache and the explanation pipeline.     *)
(*                                                                         *)
(* Strings whose content the code inspects (FEN strings, cache keys, eval  *)
(* strings) are sequences of one-character strings, so that split, join,   *)
(* toFixed, parseFloat and parseInt are computed and not assumed.          *)
(***************************************************************************)
EXTENDS Integers, Sequences, FiniteSets, TLC

(***************************************************************************)
(* Bounds of the model.                                                    *)
(***************************************************************************)
\* position-changed events (analyzePosition calls) after the one of init()
MaxEvents == 2
\* lines in flight from the engine worker to the page
MaxQueue == 1
\* fetchExplanations invocations that can be suspended at the same time
MaxRuns == 2

(***************************************************************************)
(* Program constants.                                                      *)
(***************************************************************************)
\* CONFIG.engine.depth, the depth of `go depth`
GoDepth == 18
\* fetchExplanations: currentAnalysis.slice(0, 4)
TopK == 4
\* parseAnalysisLine: publish when depth >= 10 and depth is even
PublishMinDepth == 10
\* parseEval: the score that stands for a mate
MateScore == 10000
\* 0.00368208, in hundred-millionths
LichessCoefficient == 368208

\* The ranks (multipv) the engine reports in the model: the first two of the
\* MultiPV = 4 the page configures.
Ranks == {1, 2}

(***************************************************************************)
(* Strings.                                                                *)
(***************************************************************************)
Digits == <<"0", "1", "2", "3", "4", "5", "6", "7", "8", "9">>

DigitChar(d) == Digits[d + 1]

IsDigit(c) == \E i \in 1..10 : Digits[i] = c

DigitValue(c) == (CHOOSE i \in 1..10 : Digits[i] = c) - 1

Abs(n) == IF n < 0 THEN -n ELSE n

RECURSIVE NatToStr(_)
\* the decimal digits of a natural number (template-literal / toString)
NatToStr(n) ==
    IF n < 10 THEN <<DigitChar(n)>>
    ELSE NatToStr(n \div 10) \o <<DigitChar(n % 10)>>

\* `${n}` for an integer n
IntToStr(n) == IF n < 0 THEN <<"-">> \o NatToStr(-n) ELSE NatToStr(n)

RECURSIVE DigitsValue(_, _)
\* the value of the leading digits of s, after acc
DigitsValue(s, acc) ==
    IF s = <<>> \/ ~IsDigit(Head(s)) THEN acc
    ELSE DigitsValue(Tail(s), 10 * acc + DigitValue(Head(s)))

\* parseInt(s) for a string that starts with an optional sign and a digit
parseInt(s) ==
    IF s # <<>> /\ Head(s) = "-" THEN -DigitsValue(Tail(s), 0)
    ELSE IF s # <<>> /\ Head(s) = "+" THEN DigitsValue(Tail(s), 0)
    ELSE DigitsValue(s, 0)

RECURSIVE SkipDigits(_)
SkipDigits(s) == IF s = <<>> \/ ~IsDigit(Head(s)) THEN s ELSE SkipDigits(Tail(s))

\* The first two fraction digits of s (s starts after the integer part), as
\* hundredths.
FractionHundredths(s) ==
    IF s = <<>> \/ Head(s) # "." THEN 0
    ELSE LET f == Tail(s)
             d1 == IF Len(f) >= 1 /\ IsDigit(f[1]) THEN DigitValue(f[1]) ELSE 0
             d2 == IF Len(f) >= 2 /\ IsDigit(f[1]) /\ IsDigit(f[2])
                   THEN DigitValue(f[2]) ELSE 0
         IN 10 * d1 + d2

\* parseFloat(s), in hundredths: the model's numbers are integers, and every
\* string the code parses this way has at most two decimals.
parseFloat100(s) ==
    LET neg  == s # <<>> /\ Head(s) = "-"
        body == IF s # <<>> /\ Head(s) \in {"-", "+"} THEN Tail(s) ELSE s
        mag  == 100 * DigitsValue(body, 0) + FractionHundredths(SkipDigits(body))
    IN IF neg THEN -mag ELSE mag

\* (cp / 100).toFixed(2) for an integer cp: sign, integer part, two decimals.
\* Zero (also JavaScript's -0) has no sign.
toFixed2(cp) ==
    LET a == Abs(cp)
    IN (IF cp < 0 THEN <<"-">> ELSE <<>>)
       \o NatToStr(a \div 100) \o <<".">>
       \o <<DigitChar((a % 100) \div 10), DigitChar(a % 10)>>

RECURSIVE SplitFirst(_, _)
\* s.split(sep)[0]: the characters before the first sep
SplitFirst(s, sep) ==
    IF s = <<>> \/ Head(s) = sep THEN <<>>
    ELSE <<Head(s)>> \o SplitFirst(Tail(s), sep)

RECURSIVE Join(_, _)
\* fields.join(sep)
Join(fields, sep) ==
    IF fields = <<>> THEN <<>>
    ELSE IF Len(fields) = 1 THEN fields[1]
    ELSE fields[1] \o <<sep>> \o Join(Tail(fields), sep)

(***************************************************************************)
(* The rules engine (chess.js), on the positions of the model.  P0 is the  *)
(* starting position, P1 follows 1.e4 and P2 follows 1.e4 e5; P2t has the  *)
(* board of P2 reached by another move order (no castling rights, no en    *)
(* passant square, later clocks) and P2b has it after 1.e3 e5 2.e4, with   *)
(* Black to move; both are entered by loading their FEN.                   *)
(***************************************************************************)
Positions == {"P0", "P1", "P2", "P2t", "P2b"}

StartPosition == "P0"

Board0 == <<"r","n","b","q","k","b","n","r","/","p","p","p","p","p","p","p","p","/","8","/","8","/","8","/","8","/","P","P","P","P","P","P","P","P","/","R","N","B","Q","K","B","N","R">>
Board1 == <<"r","n","b","q","k","b","n","r","/","p","p","p","p","p","p","p","p","/","8","/","8","/","4","P","3","/","8","/","P","P","P","P","1","P","P","P","/","R","N","B","Q","K","B","N","R">>
Board2 == <<"r","n","b","q","k","b","n","r","/","p","p","p","p","1","p","p","p","/","8","/","4","p","3","/","4","P","3","/","8","/","P","P","P","P","1","P","P","P","/","R","N","B","Q","K","B","N","R">>

PosData(p) ==
    CASE p = "P0" -> [board |-> Board0, turn |-> "w", castling |-> <<"K","Q","k","q">>,
                      ep |-> <<"-">>, half |-> 0, full |-> 1]
      [] p = "P1" -> [board |-> Board1, turn |-> "b", castling |-> <<"K","Q","k","q">>,
                      ep |-> <<"e","3">>, half |-> 0, full |-> 1]
      [] p = "P2" -> [board |-> Board2, turn |-> "w", castling |-> <<"K","Q","k","q">>,
                      ep |-> <<"e","6">>, half |-> 0, full |-> 2]
      [] p = "P2t" -> [board |-> Board2, turn |-> "w", castling |-> <<"-">>,
                      ep |-> <<"-">>, half |-> 4, full |-> 6]
      [] p = "P2b" -> [board |-> Board2, turn |-> "b", castling |-> <<"K","Q","k","q">>,
                      ep |-> <<"e","3">>, half |-> 0, full |-> 2]

\* game.turn()
Turn(p) == PosData(p).turn

\* game.fen(): the six fields joined by single spaces
Fen(p) ==
    LET d == PosData(p)
    IN Join(<<d.board, <<d.turn>>, d.castling, d.ep, NatToStr(d.half), NatToStr(d.full)>>, " ")

\* new Chess(fen) / game.load(fen): the position a FEN string stands for
PositionOfFen(f) == CHOOSE p \in Positions : Fen(p) = f

\* The coordinate moves the model knows; LegalSan(p) maps the ones legal in p
\* to their SAN, as move({from, to, promotion}).san does.
UciMoves == {"e2e4", "g1f3", "d2d4", "e7e5", "g8f6"}

LegalSan(p) ==
    CASE p = "P0" -> [u \in {"e2e4", "g1f3"} |-> IF u = "e2e4" THEN "e4" ELSE "Nf3"]
      [] p = "P1" -> [u \in {"e7e5", "g8f6"} |-> IF u = "e7e5" THEN "e5" ELSE "Nf6"]
      [] p \in {"P2", "P2t"} ->
                     [u \in {"g1f3", "d2d4"} |-> IF u = "g1f3" THEN "Nf3" ELSE "d4"]
      [] p = "P2b" -> [u \in {"g8f6"} |-> "Nf6"]

LegalMoves(p) == DOMAIN LegalSan(p)

\* The moves the user plays in the model, and where they lead.
Played == {<<"P0", "e2e4">>, <<"P1", "e7e5">>}

MoveResult(p, u) == IF p = "P0" THEN "P1" ELSE "P2"

(***************************************************************************)
(* State.                                                                  *)
(***************************************************************************)
VARIABLES
    game,             \* chess.js: [pos, hist], hist the positions undo returns to
    stockfish,        \* "null" or "worker"
    initPc,           \* initStockfish: "fetch" (awaiting), "done" or "failed"
    analysisTimeout,  \* the id setTimeout returned last, 0 before the first
    timers,           \* browser: the ids of the pending timeouts
    timerSeq,         \* browser: the last timer id issued
    analysisLines,    \* rank -> line, NoLine where the object has no such key
    currentDepth,
    currentAnalysis,  \* the array published last
    engineDepth,      \* DOM: the text of #engineDepth
    moveList,         \* DOM: #moveList, [kind, items]
    toEngine,         \* commands posted to the worker and not yet read by it
    engine,           \* the worker: [pos, searching, depth, gen]
    fromEngine,       \* lines posted by the worker and not yet handled
    apiKey,           \* "" or the stored key
    autoExplain,      \* DOM: #autoExplainCheckbox.checked
    apiKeyModal,      \* DOM: #apiKeyModal has class active
    explainBtn,       \* DOM: #explainBtn, "enabled" or "disabled"
    supabaseClient,   \* "null" or "client"
    cache,            \* Supabase: the rows of move_explanations
    cacheWrites,      \* Supabase: the upserts in flight
    runs,             \* the fetchExplanations invocations, by slot
    call,             \* a call of a cache function from outside the pipeline
    keyLog,           \* history: the last two getCacheKey calls, with their results
    lastSave,         \* history: (board, move) -> text of the last completed save
    lastStored,       \* history: the same, for the saves whose upsert succeeded
    generation,       \* history: the number of analyzePosition calls so far
    nPosted,          \* history: stop/position/go commands posted so far
    lastGroup,        \* history: the last three of them
    nBursts,          \* history: runs of events, each within the delay of the last
    firedNull         \* history: a timer callback has run while stockfish was null

vars == <<game, stockfish, initPc, analysisTimeout, timers, timerSeq,
          analysisLines, currentDepth, currentAnalysis, engineDepth, moveList,
          toEngine, engine, fromEngine, apiKey, autoExplain, apiKeyModal,
          explainBtn, supabaseClient, cache, cacheWrites, runs,
          call, keyLog, lastSave, lastStored,
          generation, nPosted, lastGroup, nBursts, firedNull>>

gameVars   == <<game>>
timerVars  == <<analysisTimeout, timers, timerSeq>>
aggVars    == <<analysisLines, currentDepth, currentAnalysis>>
domVars    == <<engineDepth, moveList>>
engineVars == <<toEngine, engine, fromEngine>>
keyVars    == <<apiKey, autoExplain, apiKeyModal>>
storeVars  == <<supabaseClient, cache, cacheWrites>>
probeVars  == <<call, keyLog, lastSave, lastStored>>
pipeVars   == <<keyVars, explainBtn, storeVars, runs, probeVars>>
histVars   == <<generation, nPosted, lastGroup, nBursts, firedNull>>

NoLine == [move |-> "", uci |-> "", eval |-> <<>>, depth |-> 0, pv |-> <<>>]

\* analysisLines = {}
EmptyLines == [r \in Ranks |-> NoLine]

\* The texts of #engineDepth.
AnalyzingText == [kind |-> "analyzing", depth |-> 0]
UnavailableText == [kind |-> "unavailable", depth |-> 0]
\* `Depth ${currentDepth}`
DepthText(d) == [kind |-> "depth", depth |-> d]

\* The placeholder of an explanation slot, as updateAnalysisDisplay renders it.
PlaceholderNoKey == "Add API key for explanations"
PlaceholderExplain == "Click Explain Moves for analysis"

\* The slots of fetchExplanations invocations.
RunIds == 1..MaxRuns

IdleRun == [pc |-> "idle", gen |-> 0, fen |-> <<>>, moves |-> <<>>, idx |-> 0, el |-> "none",
            cached |-> <<>>, uncached |-> <<>>, requests |-> 0, sent |-> <<>>,
            outcome |-> "none", reply |-> <<>>, all |-> <<>>, saved |-> {},
            failed |-> {}, calls |-> <<>>, after |-> {}]

\* No call of a cache function is under way outside the pipeline.
IdleCall == [op |-> "none", pc |-> "idle", fen |-> <<>>, move |-> "", text |-> "",
             ok |-> TRUE, key |-> <<>>, result |-> ""]

\* #moveList.innerHTML is replaced: an element a suspended invocation holds
\* is no longer in the document.
Detached(rs) ==
    [i \in RunIds |-> IF rs[i].el = "live" THEN [rs[i] EXCEPT !.el = "detached"]
                      ELSE rs[i]]

\* The latest timer is still pending: the run of events it belongs to is open.
InBurst == timerSeq \in timers

(***************************************************************************)
(* The state after init(): initSupabase and initBoard have run,            *)
(* initStockfish awaits its fetch, and the first analyzePosition has set   *)
(* the debounce timer.                                                     *)
(***************************************************************************)
\* sf and pc say how far initStockfish has come, key is the API key found in
\* localStorage or CONFIG, client what initSupabase made, and rows what the
\* table holds.
InitPage(sf, pc, key, client, rows) ==
    /\ game = [pos |-> StartPosition, hist |-> <<>>]
    /\ stockfish = sf
    /\ initPc = pc
    /\ analysisTimeout = 1
    /\ timers = {1}
    /\ timerSeq = 1
    /\ analysisLines = EmptyLines
    /\ currentDepth = 0
    /\ currentAnalysis = <<>>
    /\ engineDepth = AnalyzingText
    /\ moveList = [kind |-> "analyzing", items |-> <<>>]
    /\ toEngine = <<>>
    /\ engine = [pos |-> "none", searching |-> FALSE, depth |-> 0, gen |-> 0,
                 said |-> <<>>]
    /\ fromEngine = <<>>
    /\ apiKey = key
    /\ autoExplain = FALSE
    /\ apiKeyModal = (key = "")
    /\ explainBtn = "enabled"
    /\ supabaseClient = client
    /\ cache = rows
    /\ cacheWrites = {}
    /\ runs = [i \in RunIds |-> IdleRun]
    /\ call = IdleCall
    /\ keyLog = <<>>
    /\ lastSave = <<>>
    /\ lastStored = <<>>
    /\ generation = 1
    /\ nPosted = 0
    /\ lastGroup = <<>>
    /\ nBursts = 1
    /\ firedNull = FALSE

\* No API key, no cache client; initStockfish awaits its fetch.
InitEngine == InitPage("null", "fetch", "", "null", {})

(***************************************************************************)
(* initStockfish, after its await.                                         *)
(***************************************************************************)
\* The fetch and the blob resolve: the worker is created, and uci, setoption
\* and isready are posted to it.
StockfishLoaded ==
    /\ initPc = "fetch"
    /\ initPc' = "done"
    /\ stockfish' = "worker"
    /\ toEngine' = toEngine \o <<[cmd |-> "uci", fen |-> <<>>, gen |-> 0],
                                 [cmd |-> "setoption", fen |-> <<>>, gen |-> 0],
                                 [cmd |-> "isready", fen |-> <<>>, gen |-> 0]>>
    /\ UNCHANGED <<gameVars, timerVars, aggVars, domVars, engine, fromEngine,
                   pipeVars, histVars>>

\* The fetch (or the Worker constructor) throws: the catch block.
StockfishFailed ==
    /\ initPc = "fetch"
    /\ initPc' = "failed"
    /\ engineDepth' = UnavailableText
    /\ moveList' = [kind |-> "failed", items |-> <<>>]
    /\ runs' = Detached(runs)
    /\ UNCHANGED <<gameVars, stockfish, timerVars, aggVars, engineVars, keyVars,
                   explainBtn, storeVars, probeVars, histVars>>

(***************************************************************************)
(* analyzePosition and its debounce timer.                                 *)
(***************************************************************************)
\* The guard is dropped: every pending timeout stays pending.
clearTimeoutMissing(pending, id) == pending

\* if (analysisTimeout) clearTimeout(analysisTimeout)
clearTimeout(pending, id) == pending \ {id}

\* analyzePosition(): clears the aggregate, shows "Analyzing", and replaces
\* the pending timeout by a new one.  The caller sets game'.
analyzePosition ==
    /\ analysisLines' = EmptyLines
    /\ currentDepth' = 0
    /\ engineDepth' = AnalyzingText
    /\ moveList' = [kind |-> "analyzing", items |-> <<>>]
    /\ timers' = clearTimeout(timers, analysisTimeout) \cup {timerSeq + 1}
    /\ analysisTimeout' = timerSeq + 1
    /\ timerSeq' = timerSeq + 1
    /\ generation' = generation + 1
    /\ nBursts' = IF InBurst THEN nBursts ELSE nBursts + 1
    /\ runs' = Detached(runs)
    /\ UNCHANGED <<stockfish, initPc, currentAnalysis, engineVars, keyVars,
                   explainBtn, storeVars, probeVars, nPosted, lastGroup, firedNull>>

\* The three commands of the timeout callback.
AnalysisCommands(fen, gen) ==
    <<[cmd |-> "stop", fen |-> <<>>, gen |-> gen],
      [cmd |-> "position", fen |-> fen, gen |-> gen],
      [cmd |-> "go", fen |-> <<>>, gen |-> gen]>>

\* The callback posts whether or not there is a worker.
EngineReadyAlways(sf) == TRUE

\* The callback: if (stockfish)
EngineReady(sf) == sf = "worker"

\* The callback of setTimeout(..., 100) runs: the timer id was pending.
TimerFires(id) ==
    /\ id \in timers
    /\ timers' = timers \ {id}
    /\ IF EngineReady(stockfish)
       THEN /\ toEngine' = toEngine \o AnalysisCommands(Fen(game.pos), generation)
            /\ nPosted' = nPosted + 3
            /\ lastGroup' = AnalysisCommands(Fen(game.pos), generation)
            /\ UNCHANGED firedNull
       ELSE /\ firedNull' = TRUE
            /\ UNCHANGED <<toEngine, nPosted, lastGroup>>
    /\ UNCHANGED <<gameVars, stockfish, initPc, analysisTimeout, timerSeq, aggVars,
                   domVars, engine, fromEngine, pipeVars, generation, nBursts>>

(***************************************************************************)
(* The position-changed events.                                            *)
(***************************************************************************)
\* handleMove(source, target) with a legal move; playAnalysisMove(uci) has
\* the same effect on this state.
handleMove(u) ==
    /\ <<game.pos, u>> \in Played
    /\ game' = [pos |-> MoveResult(game.pos, u), hist |-> Append(game.hist, game.pos)]
    /\ analyzePosition

newGame ==
    /\ game' = [pos |-> StartPosition, hist |-> <<>>]
    /\ analyzePosition

\* game.undo() returns null and changes nothing when there is no move to undo.
undoMove ==
    /\ game' = IF game.hist = <<>> THEN game
               ELSE [pos |-> game.hist[Len(game.hist)],
                     hist |-> SubSeq(game.hist, 1, Len(game.hist) - 1)]
    /\ analyzePosition

\* setFenFromInput() with a valid FEN.
setFenFromInput(f) ==
    /\ game' = [pos |-> PositionOfFen(f), hist |-> <<>>]
    /\ analyzePosition

(***************************************************************************)
(* The score shown for a line, and how the list is ranked.                 *)
(***************************************************************************)
\* The score is shown as the engine sent it, whoever is to move.
evalScoreCpUnflipped(turn, scoreValue) ==
    (IF scoreValue > 0 THEN <<"+">> ELSE <<>>) \o toFixed2(scoreValue)

\* parseAnalysisLine, score cp: the sign is flipped when Black is to move,
\* two decimals, and a '+' before a positive value.
evalScoreCp(turn, scoreValue) ==
    LET cpScore == IF turn = "w" THEN scoreValue ELSE -scoreValue
    IN (IF cpScore > 0 THEN <<"+">> ELSE <<>>) \o toFixed2(cpScore)

\* parseAnalysisLine, score mate: `M${scoreValue}` in both branches.
evalScoreMate(scoreValue) == <<"M">> \o IntToStr(scoreValue)

evalScore(scoreType, scoreValue, turn) ==
    IF scoreType = "mate" THEN evalScoreMate(scoreValue)
    ELSE evalScoreCp(turn, scoreValue)

\* parseEval(evalStr), in hundredths of a pawn.
parseEval(evalStr) ==
    IF evalStr # <<>> /\ Head(evalStr) = "M"
    THEN LET mateIn == parseInt(Tail(evalStr))
         IN 100 * (IF mateIn > 0 THEN MateScore - mateIn ELSE (-MateScore) - mateIn)
    ELSE parseFloat100(evalStr)

RECURSIVE ExpSeries(_, _, _)
\* Math.exp(x) for 0 <= x < 1, in ten-thousandths, x in ten-thousandths: the
\* power series from its term n on, term being the term before it.
ExpSeries(x, term, n) ==
    IF n > 8 THEN 0
    ELSE LET next == (term * x) \div (n * 10000)
         IN next + ExpSeries(x, next, n + 1)

\* Math.exp(-0.00368208 * cp), in ten-thousandths, for cp in hundredths of a
\* pawn with |cp| below 270.
ExpOfCp(cp) ==
    LET x == (LichessCoefficient * Abs(cp)) \div 10000
        e == 10000 + ExpSeries(x, 10000, 1)
    IN IF cp >= 0 THEN 100000000 \div e ELSE e

\* updateEvalDisplay(evalStr): the width of #winProbWhite, in hundredths of a
\* percent.
updateEvalDisplay(evalStr) ==
    IF evalStr # <<>> /\ Head(evalStr) = "M"
    THEN LET mateIn == parseInt(Tail(evalStr))
         IN IF mateIn > 0 THEN 10000 ELSE 0
    ELSE LET e == ExpOfCp(parseFloat100(evalStr))
         IN 5000 + (5000 * (10000 - e)) \div (10000 + e)

\* The width of #winProbWhite, in hundredths of a percent: updateEvalDisplay
\* is called with moves[0].eval where currentAnalysis is assigned, and
\* nowhere else; before the first list it is the 50% of the page as loaded.
winProbWhite ==
    IF currentAnalysis = <<>> THEN 5000
    ELSE updateEvalDisplay(currentAnalysis[1].eval)

MaxRank == CHOOSE r \in Ranks : \A q \in Ranks : q <= r

RECURSIVE ValuesFrom(_, _)
\* Object.values(analysisLines): the lines in ascending key order
ValuesFrom(lines, r) ==
    IF r > MaxRank THEN <<>>
    ELSE (IF lines[r] = NoLine THEN <<>> ELSE <<lines[r]>>) \o ValuesFrom(lines, r + 1)

RECURSIVE InsertByEval(_, _)
\* x placed after every line whose eval is at least its own
InsertByEval(sorted, x) ==
    IF sorted = <<>> THEN <<x>>
    ELSE IF parseEval(Head(sorted).eval) < parseEval(x.eval) THEN <<x>> \o sorted
    ELSE <<Head(sorted)>> \o InsertByEval(Tail(sorted), x)

RECURSIVE SortByEval(_, _)
\* values.sort((a, b) => parseEval(b.eval) - parseEval(a.eval)): stable, best first
SortByEval(todo, sorted) ==
    IF todo = <<>> THEN sorted
    ELSE SortByEval(Tail(todo), InsertByEval(sorted, Head(todo)))

\* One .move-item of the rendered list, with its explanation slot.
Item(m, key) ==
    [move |-> m.move, uci |-> m.uci, eval |-> m.eval,
     text |-> IF key = "" THEN PlaceholderNoKey ELSE PlaceholderExplain,
     loading |-> FALSE]

\* updateAnalysisDisplay(): what it makes of #engineDepth, #moveList and
\* currentAnalysis, given the lines and the depth it reads.
updateAnalysisDisplay(lines, depth, analysis, key) ==
    LET moves == SortByEval(ValuesFrom(lines, 1), <<>>)
    IN IF moves = <<>>
       THEN [engineDepth |-> DepthText(depth),
             moveList |-> [kind |-> "nolegal", items |-> <<>>],
             currentAnalysis |-> analysis]
       ELSE [engineDepth |-> DepthText(depth),
             moveList |-> [kind |-> "list",
                           items |-> [i \in 1..Len(moves) |-> Item(moves[i], key)]],
             currentAnalysis |-> moves]

(***************************************************************************)
(* The explanation cache (Supabase table move_explanations).               *)
(***************************************************************************)
Min(a, b) == IF a < b THEN a ELSE b

\* JavaScript objects used as maps from a key to a text.
Has(map, k) == k \in DOMAIN map

Put(map, k, v) == [x \in (DOMAIN map) \cup {k} |-> IF x = k THEN v ELSE map[x]]

\* { ...a, ...b }
Spread(a, b) ==
    [x \in (DOMAIN a) \cup (DOMAIN b) |-> IF x \in DOMAIN b THEN b[x] ELSE a[x]]

\* map[k], "" where JavaScript gives undefined
Lookup(map, k) == IF k \in DOMAIN map THEN map[k] ELSE ""

\* The whole FEN is the key.
getCacheKeyWholeFen(fen, move) == fen \o <<"_", move>>

\* getCacheKey(fen, move): `${fen.split(' ')[0]}_${move}`
getCacheKey(fen, move) == SplitFirst(fen, " ") \o <<"_", move>>

\* .select('explanation').eq('cache_key', key).maybeSingle(): data.explanation,
\* or "" (null) when no row has the key
SelectExplanation(rows, key) ==
    IF \E r \in rows : r.cache_key = key
    THEN (CHOOSE r \in rows : r.cache_key = key).explanation
    ELSE ""

\* .upsert(row, { onConflict: 'cache_key' })
Upsert(rows, row) == {r \in rows : r.cache_key # row.cache_key} \cup {row}

\* The row is stored under the move alone.
CacheRowKeyedByMove(fen, move, explanation) ==
    [cache_key |-> <<"_", move>>, fen |-> fen, move |-> move,
     explanation |-> explanation]

\* saveExplanationToCache: the row it upserts
CacheRow(fen, move, explanation) ==
    [cache_key |-> getCacheKey(fen, move), fen |-> fen, move |-> move,
     explanation |-> explanation]

\* A missing client and a failed query are reported as the explanation.
getExplanationFromCacheSurfaced(rows, client, fen, move, ok) ==
    IF client = "null" \/ ~ok THEN "Error fetching explanation"
    ELSE SelectExplanation(rows, getCacheKey(fen, move))

\* getExplanationFromCache(fen, move): null ("") without a client, when the
\* query comes back with an error or throws (ok is FALSE), and when no row
\* has the key.
getExplanationFromCache(rows, client, fen, move, ok) ==
    IF client = "null" \/ ~ok THEN ""
    ELSE SelectExplanation(rows, getCacheKey(fen, move))

(***************************************************************************)
(* The cache functions called on their own, one call at a time, with the   *)
(* history the round-trip and key properties are stated on.                *)
(***************************************************************************)
\* The board-layout field of the position a FEN string stands for.
BoardOf(fen) == PosData(PositionOfFen(fen)).board

\* The variables the cache functions neither read nor write.
pageVars == <<gameVars, stockfish, initPc, timerVars, aggVars, domVars, engineVars,
              keyVars, explainBtn, runs, histVars>>

CallDone == call.pc \in {"idle", "returned"}

\* getCacheKey(fen, move) is called and returns.
CallGetCacheKey(fen, move) ==
    /\ CallDone
    /\ call' = [IdleCall EXCEPT !.op = "key", !.pc = "returned", !.fen = fen,
                                !.move = move, !.key = getCacheKey(fen, move)]
    /\ keyLog' = (IF Len(keyLog) = 2 THEN Tail(keyLog) ELSE keyLog)
                    \o <<[fen |-> fen, move |-> move, key |-> getCacheKey(fen, move)]>>
    /\ UNCHANGED <<pageVars, storeVars, lastSave, lastStored>>

\* saveExplanationToCache(fen, move, explanation) up to its await: without a
\* client it returns at once.
CallSave(fen, move, explanation) ==
    /\ CallDone
    /\ call' = [IdleCall EXCEPT !.op = "save", !.fen = fen, !.move = move,
                                !.text = explanation,
                                !.pc = IF supabaseClient = "null" THEN "returned"
                                       ELSE "upsert"]
    /\ lastSave' = IF supabaseClient = "null"
                   THEN Put(lastSave, <<BoardOf(fen), move>>, explanation)
                   ELSE lastSave
    /\ UNCHANGED <<pageVars, storeVars, keyLog, lastStored>>

\* The upsert resolves: the row is stored (ok), or the request failed and the
\* error is swallowed; either way saveExplanationToCache completes.
UpsertResolves(ok) ==
    /\ call.op = "save" /\ call.pc = "upsert"
    /\ call' = [call EXCEPT !.pc = "returned", !.ok = ok]
    /\ cache' = IF ok THEN Upsert(cache, CacheRow(call.fen, call.move, call.text))
                ELSE cache
    /\ lastSave' = Put(lastSave, <<BoardOf(call.fen), call.move>>, call.text)
    /\ lastStored' = IF ok THEN Put(lastStored, <<BoardOf(call.fen), call.move>>, call.text)
                     ELSE lastStored
    /\ UNCHANGED <<pageVars, supabaseClient, cacheWrites, keyLog>>

\* getExplanationFromCache(fen, move) up to its await: without a client it
\* returns null at once.
CallGet(fen, move) ==
    /\ CallDone
    /\ call' = [IdleCall EXCEPT !.op = "get", !.fen = fen, !.move = move,
                                !.pc = IF supabaseClient = "null" THEN "returned"
                                       ELSE "select"]
    /\ UNCHANGED <<pageVars, storeVars, keyLog, lastSave, lastStored>>

\* The select resolves, with data or with an error, and the function returns.
SelectResolves(ok) ==
    /\ call.op = "get" /\ call.pc = "select"
    /\ call' = [call EXCEPT !.pc = "returned", !.ok = ok,
                            !.result = getExplanationFromCache(cache, supabaseClient,
                                                             call.fen, call.move, ok)]
    /\ UNCHANGED <<pageVars, storeVars, keyLog, lastSave, lastStored>>

(***************************************************************************)
(* fetchExplanations.  An invocation runs from one await to the next; the  *)
(* operators below give what one such stretch makes of the page            *)
(* P = [moveList, runs, explainBtn, apiKeyModal, cacheWrites].             *)
(***************************************************************************)
\* document.getElementById(`explanation-${i - 1}`) finds an element
HasSlot(ml, i) == ml.kind = "list" /\ i <= Len(ml.items)

SetSlot(ml, i, text, loading) ==
    [ml EXCEPT !.items[i].text = text, !.items[i].loading = loading]

Page == [moveList |-> moveList, runs |-> runs, explainBtn |-> explainBtn,
         apiKeyModal |-> apiKeyModal, cacheWrites |-> cacheWrites]

\* uncachedMoves.map(m => `${m.move} (eval: ${m.eval})`): the moves of the prompt
MovesOfPrompt(uncachedMoves) == [i \in 1..Len(uncachedMoves) |-> uncachedMoves[i].move]

RECURSIVE BeginLookup(_, _, _, _), AfterLookup(_, _, _, _)
\* The head of the loop body for movesToExplain[idx]: the slot is looked up
\* and shows 'Checking cache...', then the invocation awaits the lookup.
\* Without a client getExplanationFromCache has already returned null: the
\* await resumes before any other event is handled.
BeginLookup(P, id, idx, client) ==
    LET P1 == IF HasSlot(P.moveList, idx)
              THEN [P EXCEPT !.moveList = SetSlot(@, idx, "Checking cache...", TRUE),
                             !.runs[id].idx = idx, !.runs[id].el = "live",
                             !.runs[id].pc = "cache"]
              ELSE [P EXCEPT !.runs[id].idx = idx, !.runs[id].el = "none",
                             !.runs[id].pc = "cache"]
    IN IF client = "null" THEN AfterLookup(P1, id, "", client) ELSE P1

\* The lookup of movesToExplain[idx] resolves with cachedText ("" for null):
\* the rest of the loop body, then the next lookup, or the end of the loop
\* (the return when nothing is uncached, else the prompt and the fetch).
AfterLookup(P, id, cachedText, client) ==
    LET r   == P.runs[id]
        m   == r.moves[r.idx]
        hit == cachedText # ""
        ml1 == IF r.el = "live"
               THEN IF hit THEN SetSlot(P.moveList, r.idx, cachedText, FALSE)
                    ELSE SetSlot(P.moveList, r.idx, "Generating explanation...", TRUE)
               ELSE P.moveList
        r1  == [r EXCEPT !.cached = IF hit THEN Put(@, m.move, cachedText) ELSE @,
                         !.uncached = IF hit THEN @ ELSE Append(@, m)]
        P1  == [P EXCEPT !.moveList = ml1, !.runs[id] = r1]
    IN IF r.idx < Len(r.moves) THEN BeginLookup(P1, id, r.idx + 1, client)
       ELSE IF r1.uncached = <<>>
       THEN [P1 EXCEPT !.explainBtn = "enabled", !.runs[id].pc = "done",
                       !.runs[id].el = "none", !.runs[id].outcome = "cached"]
       ELSE [P1 EXCEPT !.runs[id].pc = "api", !.runs[id].el = "none",
                       !.runs[id].requests = @ + 1,
                       !.runs[id].sent = MovesOfPrompt(r1.uncached)]

\* The invocations that are awaiting the cache or the service.
InFlight(rs) == {j \in RunIds : rs[j].pc \in {"cache", "api"}}

\* fetchExplanations() up to its first suspension, as invocation id.  after,
\* the invocations that were in flight when this one started, is history.
fetchExplanations(P, id, fen, analysis, key, client, gen) ==
    IF key = "" THEN [P EXCEPT !.apiKeyModal = TRUE]
    ELSE IF analysis = <<>> THEN P
    ELSE BeginLookup(
            [P EXCEPT !.explainBtn = "disabled",
                      !.runs = [j \in RunIds |->
                                  IF j = id
                                  THEN [IdleRun EXCEPT
                                          !.gen = gen, !.fen = fen,
                                          !.moves = SubSeq(analysis, 1,
                                                           Min(TopK, Len(analysis))),
                                          !.after = InFlight(P.runs)]
                                  ELSE [P.runs[j] EXCEPT !.after = @ \ {id}]]],
            id, 1, client)

\* The catch block and the finally block.
AfterError(P, id) ==
    LET r == P.runs[id]
        items == [i \in DOMAIN P.moveList.items |->
                    IF i <= Len(r.moves) /\ Lookup(r.cached, r.moves[i].move) = ""
                    THEN [P.moveList.items[i] EXCEPT !.text = "Error fetching explanation",
                                                     !.loading = FALSE]
                    ELSE P.moveList.items[i]]
    IN [P EXCEPT !.moveList.items = items, !.explainBtn = "enabled",
                 !.runs[id].pc = "done", !.runs[id].outcome = "error"]

\* The rows saveExplanationToCache upserts for the uncached moves the reply
\* explains; none when there is no client.
RowsToSave(r, newExplanations, client) ==
    IF client = "null" THEN {}
    ELSE {CacheRow(r.fen, r.uncached[i].move, newExplanations[r.uncached[i].move]) :
            i \in {j \in 1..Len(r.uncached) :
                     Lookup(newExplanations, r.uncached[j].move) # ""}}

\* The calls of saveExplanationToCache, in the order of uncachedMoves.
SaveCalls(r, newExplanations) ==
    LET explained == SelectSeq(r.uncached,
                               LAMBDA m : Lookup(newExplanations, m.move) # "")
    IN [j \in 1..Len(explained) |->
          [fen |-> r.fen, move |-> explained[j].move,
           explanation |-> newExplanations[explained[j].move]]]

\* The reply is parsed to newExplanations: the saves, the merge, the display
\* of every slot, and the finally block.
AfterReply(P, id, newExplanations, client) ==
    LET r   == P.runs[id]
        allExplanations == Spread(r.cached, newExplanations)
        items == [i \in DOMAIN P.moveList.items |->
                    IF i <= Len(r.moves)
                    THEN [P.moveList.items[i] EXCEPT
                            !.text = IF Lookup(allExplanations, r.moves[i].move) # ""
                                     THEN allExplanations[r.moves[i].move]
                                     ELSE "No explanation available",
                            !.loading = FALSE]
                    ELSE P.moveList.items[i]]
    IN [P EXCEPT !.moveList.items = items, !.explainBtn = "enabled",
                 !.cacheWrites = @ \cup RowsToSave(r, newExplanations, client),
                 !.runs[id].pc = "done", !.runs[id].outcome = "ok",
                 !.runs[id].reply = newExplanations,
                 !.runs[id].all = allExplanations,
                 !.runs[id].saved = {row.move : row \in RowsToSave(r, newExplanations, client)},
                 !.runs[id].calls = SaveCalls(r, newExplanations)]

\* The page variables take the values of P.
SetPage(P) ==
    /\ moveList' = P.moveList
    /\ runs' = P.runs
    /\ explainBtn' = P.explainBtn
    /\ apiKeyModal' = P.apiKeyModal
    /\ cacheWrites' = P.cacheWrites

\* The slot a new invocation takes in the model.
FreeRuns(rs) == {i \in RunIds : rs[i].pc \in {"idle", "done"}}

NextRun(rs) == CHOOSE i \in FreeRuns(rs) : \A j \in FreeRuns(rs) : i <= j

RECURSIVE parseExplanations(_)
\* parseExplanations(text), text as its lines: a line the pattern matches is
\* [move, explanation], one it does not match has move "".  A later line for
\* a move replaces an earlier one.
parseExplanations(lines) ==
    IF lines = <<>> THEN <<>>
    ELSE LET line == lines[Len(lines)]
             explanations == parseExplanations(SubSeq(lines, 1, Len(lines) - 1))
         IN IF line.move = "" THEN explanations
            ELSE Put(explanations, line.move, line.explanation)

(***************************************************************************)
(* The steps of the explanation pipeline.                                  *)
(***************************************************************************)
\* A click on #explainBtn, which is not disabled.
ExplainClick ==
    /\ explainBtn = "enabled"
    /\ FreeRuns(runs) # {}
    /\ SetPage(fetchExplanations(Page, NextRun(runs), Fen(game.pos), currentAnalysis,
                                 apiKey, supabaseClient, generation))
    /\ UNCHANGED <<gameVars, stockfish, initPc, timerVars, aggVars, engineDepth,
                   engineVars, apiKey, autoExplain, supabaseClient, cache,
                   probeVars, histVars>>

\* saveApiKey(), a click on the button of the API key modal while the modal
\* is shown; input is the trimmed value of #apiKeyInput.
saveApiKey(input) ==
    /\ apiKeyModal
    /\ apiKey' = input
    /\ IF input # ""
       THEN LET P0 == [Page EXCEPT !.apiKeyModal = FALSE]
            IN IF currentAnalysis # <<>>
               THEN /\ FreeRuns(runs) # {}
                    /\ SetPage(fetchExplanations(P0, NextRun(runs), Fen(game.pos),
                                                 currentAnalysis, input,
                                                 supabaseClient, generation))
               ELSE SetPage(P0)
       ELSE SetPage(Page)
    /\ UNCHANGED <<gameVars, stockfish, initPc, timerVars, aggVars, engineDepth,
                   engineVars, autoExplain, supabaseClient, cache, probeVars,
                   histVars>>

\* The user checks or unchecks #autoExplainCheckbox.
AutoExplainClick ==
    /\ autoExplain' = ~autoExplain
    /\ UNCHANGED <<gameVars, stockfish, initPc, timerVars, aggVars, domVars,
                   engineVars, apiKey, apiKeyModal, explainBtn, storeVars, runs,
                   probeVars, histVars>>

\* The cache lookup invocation id awaits resolves: with the row's text or
\* with no row (ok), or with an error.  gen, the generation the invocation
\* started in, and failed, the candidates whose lookup came back with an
\* error, are history.
LookupResolves(id, ok) ==
    /\ runs[id].pc = "cache"
    /\ LET r == runs[id]
           P == AfterLookup(Page, id,
                            getExplanationFromCache(cache, supabaseClient, r.fen,
                                                    r.moves[r.idx].move, ok),
                            supabaseClient)
       IN SetPage([P EXCEPT !.runs[id].failed = IF ok THEN @ ELSE @ \cup {r.idx}])
    /\ UNCHANGED <<gameVars, stockfish, initPc, timerVars, aggVars, engineDepth,
                   engineVars, apiKey, autoExplain, supabaseClient, cache,
                   probeVars, histVars>>

\* The request of invocation id fails: fetch rejects, the status is not OK,
\* or the body is not the JSON the code reads.
ApiFails(id) ==
    /\ runs[id].pc = "api"
    /\ SetPage(AfterError(Page, id))
    /\ UNCHANGED <<gameVars, stockfish, initPc, timerVars, aggVars, engineDepth,
                   engineVars, apiKey, autoExplain, supabaseClient, cache,
                   probeVars, histVars>>

\* The request of invocation id is answered with text.
ApiReplies(id, text) ==
    /\ runs[id].pc = "api"
    /\ SetPage(AfterReply(Page, id, parseExplanations(text), supabaseClient))
    /\ UNCHANGED <<gameVars, stockfish, initPc, timerVars, aggVars, engineDepth,
                   engineVars, apiKey, autoExplain, supabaseClient, cache,
                   probeVars, histVars>>

\* An upsert issued by the pipeline resolves: the row is stored (ok), or the
\* write failed and the error is swallowed.
CacheWriteDone(row, ok) ==
    /\ row \in cacheWrites
    /\ cacheWrites' = cacheWrites \ {row}
    /\ cache' = IF ok THEN Upsert(cache, row) ELSE cache
    /\ lastSave' = Put(lastSave, <<BoardOf(row.fen), row.move>>, row.explanation)
    /\ lastStored' = IF ok THEN Put(lastStored, <<BoardOf(row.fen), row.move>>,
                                    row.explanation)
                     ELSE lastStored
    /\ UNCHANGED <<pageVars, supabaseClient, call, keyLog>>

(***************************************************************************)
(* The Stockfish message handlers.                                         *)
(***************************************************************************)
\* Every parsed line is taken, whatever its depth.
AcceptsAnyDepth(depth, current) == TRUE

\* parseAnalysisLine: if (depth >= currentDepth)
AcceptsDepth(depth, current) == depth >= current

\* parseAnalysisLine: the regular expressions all match
WellFormed(m) == m.depth >= 0 /\ m.multipv >= 0 /\ m.scoreType # "none" /\ m.pv # <<>>

\* parseAnalysisLine: the entry stored for a line whose first move is legal;
\* for, the position the engine searched when it posted the line, and score,
\* the score of the line as the engine gave it, are history.
LineOf(m, pos) ==
    [move |-> LegalSan(pos)[m.pv[1]], uci |-> m.pv[1],
     eval |-> evalScore(m.scoreType, m.scoreValue, Turn(pos)),
     depth |-> m.depth, pv |-> m.pv, for |-> m.pos,
     score |-> <<m.scoreType, m.scoreValue>>]

\* Every depth from the threshold on is published.
PublishesAtEveryDepth(depth) == depth >= PublishMinDepth

\* parseAnalysisLine: if (depth >= 10 && depth % 2 === 0)
PublishesAt(depth) == depth >= PublishMinDepth /\ depth % 2 = 0

parseAnalysisLine(m) ==
    IF ~WellFormed(m) \/ ~AcceptsDepth(m.depth, currentDepth)
    THEN UNCHANGED <<aggVars, domVars, pipeVars>>
    ELSE /\ currentDepth' = m.depth
         /\ IF m.pv[1] \notin LegalMoves(game.pos)
            THEN UNCHANGED <<analysisLines, currentAnalysis, domVars, pipeVars>>
            ELSE LET lines == [analysisLines EXCEPT ![m.multipv] = LineOf(m, game.pos)]
                     shown == updateAnalysisDisplay(lines, m.depth, currentAnalysis, apiKey)
                 IN /\ analysisLines' = lines
                    /\ IF PublishesAt(m.depth)
                       THEN /\ engineDepth' = shown.engineDepth
                            /\ moveList' = shown.moveList
                            /\ currentAnalysis' = shown.currentAnalysis
                            /\ runs' = Detached(runs)
                            /\ UNCHANGED <<keyVars, explainBtn, storeVars, probeVars>>
                       ELSE UNCHANGED <<currentAnalysis, domVars, pipeVars>>

\* finalizeAnalysis(): the final publish, then the automatic explanation run.
finalizeAnalysis ==
    LET shown == updateAnalysisDisplay(analysisLines, currentDepth, currentAnalysis, apiKey)
        P0    == [Page EXCEPT !.moveList = shown.moveList, !.runs = Detached(runs)]
    IN /\ engineDepth' = shown.engineDepth
       /\ currentAnalysis' = shown.currentAnalysis
       /\ IF autoExplain /\ apiKey # "" /\ shown.currentAnalysis # <<>>
          THEN /\ FreeRuns(runs) # {}
               /\ SetPage(fetchExplanations(P0, NextRun(runs), Fen(game.pos),
                                            shown.currentAnalysis, apiKey,
                                            supabaseClient, generation))
          ELSE SetPage(P0)
       /\ UNCHANGED <<analysisLines, currentDepth, apiKey, autoExplain,
                      supabaseClient, cache, probeVars>>

\* handleStockfishMessage(event), for the oldest line in flight.
handleStockfishMessage ==
    /\ fromEngine # <<>>
    /\ fromEngine' = Tail(fromEngine)
    /\ LET m == Head(fromEngine)
       IN IF m.kind = "info" THEN parseAnalysisLine(m)
          ELSE IF m.kind = "bestmove" THEN finalizeAnalysis
          ELSE UNCHANGED <<aggVars, domVars, pipeVars>>
    /\ UNCHANGED <<gameVars, stockfish, initPc, timerVars, toEngine, engine, histVars>>

(***************************************************************************)
(* The engine worker (stockfish.js), as the page sees it: it reads the     *)
(* commands in order, searches the position it was given by iterative      *)
(* deepening, and posts its lines; gen is the generation of the go command *)
(* a line answers and pos the position the search is about (history, not   *)
(* in the line).                                                           *)
(***************************************************************************)
InfoLine(depth, multipv, score, uci, gen, pos) ==
    [kind |-> "info", depth |-> depth, multipv |-> multipv, scoreType |-> score[1],
     scoreValue |-> score[2], pv |-> <<uci>>, gen |-> gen, pos |-> pos]

BestmoveLine(gen) ==
    [kind |-> "bestmove", depth |-> -1, multipv |-> -1, scoreType |-> "none",
     scoreValue |-> 0, pv |-> <<>>, gen |-> gen, pos |-> "none"]

\* uciok, readyok and the other lines the page ignores
OtherLine ==
    [kind |-> "other", depth |-> -1, multipv |-> -1, scoreType |-> "none",
     scoreValue |-> 0, pv |-> <<>>, gen |-> 0, pos |-> "none"]

\* The greatest of the depths a search reports in the model: it stands for
\* the depth of `go depth`, after which the search ends.
LastDepth(depths) == CHOOSE d \in depths : \A e \in depths : e <= d

\* The worker reads its oldest command.
EngineReads ==
    /\ toEngine # <<>>
    /\ toEngine' = Tail(toEngine)
    /\ LET c == Head(toEngine)
       IN CASE c.cmd = "stop" ->
                 IF engine.searching
                 THEN /\ Len(fromEngine) < MaxQueue
                      /\ engine' = [engine EXCEPT !.searching = FALSE]
                      /\ fromEngine' = Append(fromEngine, BestmoveLine(engine.gen))
                 ELSE UNCHANGED <<engine, fromEngine>>
            [] c.cmd = "position" ->
                 /\ engine' = [engine EXCEPT !.pos = PositionOfFen(c.fen)]
                 /\ UNCHANGED fromEngine
            [] c.cmd = "go" ->
                 /\ engine' = [engine EXCEPT !.searching = TRUE, !.depth = 0,
                                             !.gen = c.gen, !.said = <<>>]
                 /\ UNCHANGED fromEngine
            [] c.cmd = "isready" ->
                 /\ Len(fromEngine) < MaxQueue
                 /\ fromEngine' = Append(fromEngine, OtherLine)
                 /\ UNCHANGED engine
            [] OTHER -> UNCHANGED <<engine, fromEngine>>
    /\ UNCHANGED <<gameVars, stockfish, initPc, timerVars, aggVars, domVars,
                   pipeVars, histVars>>

\* The search reports a line of the depth it is at.
EngineInfo(multipv, score, uci) ==
    /\ engine.searching
    /\ engine.depth > 0
    /\ Len(fromEngine) < MaxQueue
    /\ uci \in LegalMoves(engine.pos)
    /\ fromEngine' = Append(fromEngine,
                            InfoLine(engine.depth, multipv, score, uci, engine.gen,
                                     engine.pos))
    /\ UNCHANGED <<gameVars, stockfish, initPc, timerVars, aggVars, domVars,
                   toEngine, engine, pipeVars, histVars>>

\* The search reports its next line of the depth it is at, as Stockfish does
\* with MultiPV: rank 1 first, each rank once, no move at two ranks.  said
\* holds the moves reported at this depth.
EngineInfoNext(score, uci) ==
    /\ engine.searching
    /\ engine.depth > 0
    /\ Len(engine.said) < MaxRank
    /\ Len(fromEngine) < MaxQueue
    /\ uci \in LegalMoves(engine.pos)
    /\ \A i \in 1..Len(engine.said) : engine.said[i] # uci
    /\ engine' = [engine EXCEPT !.said = Append(@, uci)]
    /\ fromEngine' = Append(fromEngine,
                            InfoLine(engine.depth, Len(engine.said) + 1, score, uci,
                                     engine.gen, engine.pos))
    /\ UNCHANGED <<gameVars, stockfish, initPc, timerVars, aggVars, domVars,
                   toEngine, pipeVars, histVars>>

\* `info depth d currmove ... currmovenumber ...`: a line that starts with
\* 'info depth' and has neither multipv nor score nor pv
CurrmoveLine(depth, gen) ==
    [kind |-> "info", depth |-> depth, multipv |-> -1, scoreType |-> "none",
     scoreValue |-> 0, pv |-> <<>>, gen |-> gen, pos |-> "none"]

\* The search reports the move it is looking at.
EngineCurrmove ==
    /\ engine.searching
    /\ engine.depth > 0
    /\ Len(fromEngine) < MaxQueue
    /\ fromEngine' = Append(fromEngine, CurrmoveLine(engine.depth, engine.gen))
    /\ UNCHANGED <<gameVars, stockfish, initPc, timerVars, aggVars, domVars,
                   toEngine, engine, pipeVars, histVars>>

\* The search goes on to a greater depth.
EngineDeepens(d) ==
    /\ engine.searching
    /\ d > engine.depth
    /\ engine' = [engine EXCEPT !.depth = d, !.said = <<>>]
    /\ UNCHANGED <<gameVars, stockfish, initPc, timerVars, aggVars, domVars,
                   toEngine, fromEngine, pipeVars, histVars>>

\* The search has reached its last depth: bestmove.
EngineFinishes(last) ==
    /\ engine.searching
    /\ engine.depth = last
    /\ Len(fromEngine) < MaxQueue
    /\ engine' = [engine EXCEPT !.searching = FALSE]
    /\ fromEngine' = Append(fromEngine, BestmoveLine(engine.gen))
    /\ UNCHANGED <<gameVars, stockfish, initPc, timerVars, aggVars, domVars,
                   toEngine, pipeVars, histVars>>

(***************************************************************************)
(* The steps of the user and of the engine, over the inputs a              *)
(* specification gives them.                                               *)
(***************************************************************************)
LoadableFens == {Fen("P2t")}

\* A position-changed event, while fewer than limit have followed init().
UserEvent(limit) ==
    /\ generation <= limit
    /\ \/ \E u \in UciMoves : handleMove(u)
       \/ newGame
       \/ undoMove
       \/ \E f \in LoadableFens : setFenFromInput(f)

EngineStep(ranks, scores, moves, depths) ==
    \/ EngineReads
    \/ \E r \in ranks, sc \in scores, u \in moves : EngineInfo(r, sc, u)
    \/ \E d \in depths : EngineDeepens(d)
    \/ EngineFinishes(LastDepth(depths))

\* The steps of an engine that reports every rank at each depth, in order.
EngineStepMultiPV(scores, moves, depths) ==
    \/ EngineReads
    \/ \E sc \in scores, u \in moves : EngineInfoNext(sc, u)
    \/ \E d \in depths :
          /\ engine.depth = 0 \/ Len(engine.said) = MaxRank
          /\ EngineDeepens(d)
    \/ /\ Len(engine.said) = MaxRank
       /\ EngineFinishes(LastDepth(depths))

EngineLoad ==
    \/ StockfishLoaded
    \/ StockfishFailed

(***************************************************************************)
(* Spec: the page from init() on, with no API key stored (the explanation  *)
(* pipeline stays idle).  The engine reports one centipawn score, at a     *)
(* depth below the publish threshold, at the threshold, and at an even     *)
(* depth above it.                                                         *)
(***************************************************************************)
ScoresPlain == {<<"cp", 20>>}

DepthsAgg == {10, 12}

\* The first moves the engine reports: g1f3 is legal in P0 and in P2.
MovesAgg == {"g1f3", "e7e5"}

Next ==
    \/ EngineLoad
    \/ \E id \in timers : TimerFires(id)
    \/ UserEvent(MaxEvents)
    \/ handleStockfishMessage
    \/ EngineStep(Ranks, ScoresPlain, MovesAgg, DepthsAgg)

Spec == InitEngine /\ [][Next]_vars

(***************************************************************************)
(* C1 to C3: the debounce and the aggregate, under Spec.                   *)
(***************************************************************************)
\* C1 (debounce): as long as no timer callback has run before the worker was
\* loaded, at most one timeout is pending, every closed run of events (each
\* within the delay of the one before) has sent exactly one stop / position
\* / go group and the open one none, so that no superseded event sent a
\* command, and the last group carries the FEN of the game as it is now.
C1_Debounce ==
    ~firedNull =>
        /\ Cardinality(timers) <= 1
        /\ nPosted = 3 * (nBursts - (IF InBurst THEN 1 ELSE 0))
        /\ (~InBurst =>
               /\ Len(lastGroup) = 3
               /\ lastGroup[1].cmd = "stop"
               /\ lastGroup[2].cmd = "position"
               /\ lastGroup[2].fen = Fen(game.pos)
               /\ lastGroup[3].cmd = "go")

\* Three events in one run (the one of init, 1.e4 and 1...e5, each before the
\* timer of the one before has fired) were followed by one group, for P2.
C1_Witness ==
    /\ ~firedNull
    /\ generation = 3
    /\ nBursts = 1
    /\ ~InBurst
    /\ nPosted = 3
    /\ game.pos = "P2"
    /\ lastGroup[2].fen = Fen("P2")

\* C2 (staleness rejection), as the claim states it: handling a progress
\* line of a search that was started before the latest position-changed
\* event changes neither analysisLines nor currentDepth nor the published
\* list.
C2_StaleLineHasNoEffect ==
    [][(/\ fromEngine # <<>>
        /\ fromEngine' = Tail(fromEngine)
        /\ Head(fromEngine).kind = "info"
        /\ Head(fromEngine).gen < generation)
       => UNCHANGED <<analysisLines, currentDepth, currentAnalysis, moveList>>]_vars

\* C3 (monotonicity): between two position-changed events, a publish never
\* shows a smaller depth than the publish before it.
C3_PublishedDepthMonotone ==
    [][(/\ generation' = generation
        /\ engineDepth.kind = "depth"
        /\ engineDepth'.kind = "depth")
       => engineDepth'.depth >= engineDepth.depth]_vars

\* Depth 12 is shown, and a line published at depth 10 for the same position
\* is still held for the other rank.
C3_Witness ==
    /\ engineDepth = DepthText(12)
    /\ \E r, q \in Ranks : analysisLines[r].depth = 10 /\ analysisLines[q].depth = 12

(***************************************************************************)
(* SpecEval: the same page, with an engine that reports centipawn and mate *)
(* scores of either sign, all at one publishing depth.                     *)
(***************************************************************************)
ScoresEval == {<<"cp", 20>>, <<"cp", -35>>, <<"cp", 0>>, <<"cp", 135>>,
               <<"mate", 3>>, <<"mate", -2>>}

DepthsEval == {12}

\* One first move for White in P0, one for Black in P1.
MovesEval == {"e2e4", "e7e5"}

\* The state of Spec in which the worker was loaded, and has read uci,
\* setoption and isready, before the first timer fires.
InitLoaded == InitPage("worker", "done", "", "null", {})

\* The user plays a move, while fewer than limit events have followed init().
UserMoves(limit) ==
    /\ generation <= limit
    /\ \E u \in UciMoves : handleMove(u)

NextEval ==
    \/ \E id \in timers : TimerFires(id)
    \/ UserMoves(MaxEvents)
    \/ handleStockfishMessage
    \/ EngineStep(Ranks, ScoresEval, MovesEval, DepthsEval)

SpecEval == InitLoaded /\ [][NextEval]_vars

\* C10 (centipawn conversion): when a progress line with `score cp s` is
\* accepted, the eval stored for its rank reads as s / 100 with White to move
\* and as -s / 100 with Black to move, has exactly two decimals, and starts
\* with '+' exactly when that value is positive; a publish shows this eval.
C10_CentipawnConversion ==
    [][(/\ fromEngine # <<>>
        /\ fromEngine' = Tail(fromEngine)
        /\ Head(fromEngine).kind = "info"
        /\ Head(fromEngine).scoreType = "cp"
        /\ Head(fromEngine).depth >= currentDepth
        /\ Head(fromEngine).pv[1] \in LegalMoves(game.pos))
       => LET m == Head(fromEngine)
              v == IF Turn(game.pos) = "w" THEN m.scoreValue ELSE -m.scoreValue
              e == analysisLines'[m.multipv].eval
          IN /\ Len(e) >= 4
             /\ e[Len(e) - 2] = "."
             /\ IsDigit(e[Len(e) - 1]) /\ IsDigit(e[Len(e)])
             /\ parseFloat100(e) = v
             /\ (Head(e) = "+") <=> (v > 0)
             /\ (Head(e) = "-") <=> (v < 0)
             /\ moveList'.kind = "list"
             /\ \E i \in DOMAIN moveList'.items :
                    /\ moveList'.items[i].uci = m.pv[1]
                    /\ moveList'.items[i].eval = e]_vars

\* With Black to move, `score cp -35` is on display as +0.35.
C10_Witness ==
    /\ game.pos = "P1"
    /\ moveList.kind = "list"
    /\ \E i \in DOMAIN moveList.items :
           /\ moveList.items[i].move = "e5"
           /\ moveList.items[i].eval = <<"+", "0", ".", "3", "5">>

\* handleStockfishMessage is run in this step, for the oldest line in flight.
Handling == fromEngine # <<>> /\ fromEngine' = Tail(fromEngine)

\* The line is one parseAnalysisLine stores: well formed, of an accepted
\* depth, and with a first move that is legal in the position of the game.
Stored(m) ==
    /\ m.kind = "info"
    /\ WellFormed(m)
    /\ m.depth >= currentDepth
    /\ m.pv[1] \in LegalMoves(game.pos)

\* The score of a displayed eval for the side to move, as the specification
\* reads it: the centipawn value on display is already relative to the side
\* to move, and a mate count is the engine's, which is for White.
IsMate(e) == e # <<>> /\ Head(e) = "M"

MateForMover(e, turn) ==
    IF turn = "w" THEN parseInt(Tail(e)) > 0 ELSE parseInt(Tail(e)) < 0

\* a may stand before b in a list ranked for the side to move
RankedBefore(a, b, turn) ==
    CASE IsMate(a.eval) /\ IsMate(b.eval) ->
            MateForMover(a.eval, turn) \/ ~MateForMover(b.eval, turn)
      [] IsMate(a.eval) /\ ~IsMate(b.eval) -> MateForMover(a.eval, turn)
      [] ~IsMate(a.eval) /\ IsMate(b.eval) -> ~MateForMover(b.eval, turn)
      [] OTHER -> parseFloat100(a.eval) >= parseFloat100(b.eval)

\* C11 (ranked order), as the claim states it: every list that is published
\* is in descending order of the score for the side to move, a mate by the
\* side to move before every centipawn score and a mate against it after
\* every centipawn score, and two candidates of equal score stand in
\* ascending order of their engine rank.
C11_RankedOrder ==
    [][(/\ Handling
        /\ Stored(Head(fromEngine))
        /\ PublishesAt(Head(fromEngine).depth))
       =>    \A i, j \in 1..Len(currentAnalysis') :
                i < j =>
                   /\ RankedBefore(currentAnalysis'[i], currentAnalysis'[j],
                                   Turn(game.pos))
                   /\ currentAnalysis'[i].eval = currentAnalysis'[j].eval =>
                         \E r, q \in Ranks :
                            /\ r <= q
                            /\ analysisLines'[r] = currentAnalysis'[i]
                            /\ analysisLines'[q] = currentAnalysis'[j]]_vars

\* C12 (mate flip), as the claim states it: when a progress line with
\* `score mate n` is stored, the eval on display is M followed by n with
\* White to move and by -n with Black to move, so that its sign is positive
\* exactly when the side to move delivers the mate.
C12_MateFlipped ==
    [][(/\ Handling
        /\ Stored(Head(fromEngine))
        /\ Head(fromEngine).scoreType = "mate")
       => LET m == Head(fromEngine)
              v == IF Turn(game.pos) = "w" THEN m.scoreValue ELSE -m.scoreValue
              e == analysisLines'[m.multipv].eval
          IN /\ IsMate(e)
             /\ parseInt(Tail(e)) = v
             /\ \E i \in DOMAIN moveList'.items :
                    /\ moveList'.items[i].uci = m.pv[1]
                    /\ moveList'.items[i].eval = e]_vars

(***************************************************************************)
(* SpecStart: the page from init() on, while the worker loads or fails to  *)
(* load; the searches report nothing in the time the specification covers. *)
(* SpecStartLive adds what the browser and the worker guarantee: a pending *)
(* timeout fires, a posted command is read, a posted line is handled.  The *)
(* user and the network (the fetch of initStockfish) owe no step.          *)
(***************************************************************************)
NextStart ==
    \/ EngineLoad
    \/ \E id \in timers : TimerFires(id)
    \/ UserEvent(MaxEvents)
    \/ EngineReads
    \/ handleStockfishMessage

SpecStart == InitEngine /\ [][NextStart]_vars

SpecStartLive ==
    /\ SpecStart
    /\ WF_vars(\E id \in timers : TimerFires(id))
    /\ WF_vars(EngineReads)
    /\ WF_vars(handleStockfishMessage)

\* The stop / position / go group posted last is the one of the latest
\* position-changed event.
SentCurrent == lastGroup # <<>> /\ lastGroup[2].gen = generation

\* C13 (no request is dropped), as the claim states it: once the worker is
\* loaded, the position of the game is sent to it, or the panel says that
\* the engine is unavailable.
C13_NoRequestDropped ==
    (stockfish = "worker") ~> (SentCurrent \/ engineDepth = UnavailableText)

\* C14 (engine failure degrades to manual play): once initStockfish has
\* failed, no command has been posted to the worker and none is in flight,
\* in every later state.
C14_NoCommandAfterFailure ==
    initPc = "failed" => (nPosted = 0 /\ toEngine = <<>> /\ stockfish = "null")

\* After the failure the FEN of P2t was loaded, as the second event after
\* init(): the panel shows the "Analyzing" of that event, its timer has
\* fired, and nothing was posted.
C14_Witness ==
    /\ initPc = "failed"
    /\ game.pos = "P2t"
    /\ generation = 3
    /\ engineDepth = AnalyzingText
    /\ timers = {}
    /\ nPosted = 0

\* C15 (engine unavailability persists), as the claim states it: once
\* initStockfish has failed, the panel shows that the engine is unavailable.
C15_UnavailableShown ==
    initPc = "failed" => (engineDepth = UnavailableText /\ moveList.kind = "failed")

(***************************************************************************)
(* SpecCache: the cache functions applied to the FENs of the positions     *)
(* with the board of P2 (they differ in side to move, castling, en passant *)
(* and clocks) and to one FEN with another board, with and without a       *)
(* configured client.                                                      *)
(***************************************************************************)
FensCache == {Fen("P2"), Fen("P2t"), Fen("P2b"), Fen("P1")}

MovesCache == {"Nf3"}

TextsCache == {"Develops the knight", "Attacks e5"}

\* init() has run; initSupabase has made a client or has not.
InitCache == \E client \in {"null", "client"} : InitPage("null", "fetch", "", client, {})

NextCache ==
    \/ \E f \in FensCache, m \in MovesCache : CallGetCacheKey(f, m)
    \/ \E f \in FensCache, m \in MovesCache, t \in TextsCache : CallSave(f, m, t)
    \/ \E ok \in BOOLEAN : UpsertResolves(ok)
    \/ \E f \in FensCache, m \in MovesCache : CallGet(f, m)
    \/ \E ok \in BOOLEAN : SelectResolves(ok)

SpecCache == InitCache /\ [][NextCache]_vars

(***************************************************************************)
(* SpecExplain: the page with an API key and a cache client, the worker    *)
(* loaded, and the table holding an explanation of e4 in the starting      *)
(* position.  The engine reports e4 and Nf3 at depth 10 and then its best  *)
(* move; the position does not change.                                     *)
(***************************************************************************)
MovesExplain == {"e2e4", "g1f3"}

\* Every accepted line of this depth is published.
DepthsExplain == {10}

\* The lookups of this specification come back without an error.
LookupOutcomes == {TRUE}

CachedRows == {CacheRow(Fen(StartPosition), "e4", "Opens center")}

\* The replies of the explanation service, as lines.
Replies ==
    {<<[move |-> "", explanation |-> "Here are my thoughts."]>>,
     <<[move |-> "", explanation |-> "Here are my thoughts."],
       [move |-> "Nf3", explanation |-> "Develops the knight"]>>,
     <<[move |-> "e4", explanation |-> "Takes the centre"],
       [move |-> "Nf3", explanation |-> "Develops the knight"]>>}

InitExplain == InitPage("worker", "done", "sk-key", "client", CachedRows)

NextExplain ==
    \/ \E id \in timers : TimerFires(id)
    \/ handleStockfishMessage
    \/ EngineStep(Ranks, ScoresPlain, MovesExplain, DepthsExplain)
    \/ ExplainClick
    \/ \E id \in RunIds, ok \in LookupOutcomes : LookupResolves(id, ok)
    \/ \E id \in RunIds : ApiFails(id)
    \/ \E id \in RunIds, text \in Replies : ApiReplies(id, text)
    \/ \E row \in cacheWrites, ok \in BOOLEAN : CacheWriteDone(row, ok)

SpecExplain == InitExplain /\ [][NextExplain]_vars

\* Invocation id finishes in this step.
Finishes(id) == runs[id].pc \in {"cache", "api"} /\ runs'[id].pc = "done"

\* The texts a slot shows before and while an invocation works on it.
StatusTexts == {PlaceholderNoKey, PlaceholderExplain, "Checking cache...",
                "Generating explanation..."}

\* C4 (explanation batching), as the claim states it: an invocation that
\* found a candidate uncached has issued exactly one request, which lists
\* every uncached candidate and no cached one; after the reply its result
\* holds the cached text of every cached move and the reply's text for every
\* uncached move the reply explains.
C4_Batching ==
    \A id \in RunIds :
        LET r == runs[id]
        IN (r.pc \in {"api", "done"} /\ r.uncached # <<>>) =>
              /\ r.requests = 1
              /\ \A i \in 1..Len(r.moves) :
                     (\E j \in 1..Len(r.sent) : r.sent[j] = r.moves[i].move)
                        <=> ~Has(r.cached, r.moves[i].move)
              /\ r.outcome = "ok" =>
                     /\ \A m \in DOMAIN r.cached : Lookup(r.all, m) = r.cached[m]
                     /\ \A j \in 1..Len(r.uncached) :
                            Lookup(r.reply, r.uncached[j].move) # ""
                               => Lookup(r.all, r.uncached[j].move)
                                     = r.reply[r.uncached[j].move]

\* C5 (all cached), as the claim states it: an invocation that found every
\* candidate cached finishes with each candidate's slot showing its cached
\* text, with no request and no cache write issued, and with the explain
\* control enabled.
C5_AllCached ==
    [][\A id \in RunIds :
          (Finishes(id) /\ runs'[id].outcome = "cached") =>
             LET r == runs'[id]
             IN /\ r.requests = 0
                /\ r.saved = {}
                /\ cacheWrites' = cacheWrites
                /\ explainBtn' = "enabled"
                /\ \A i \in 1..Len(r.moves) :
                       /\ HasSlot(moveList', i)
                       /\ moveList'.items[i].text = Lookup(r.cached, r.moves[i].move)]_vars

\* C6 (failure containment), as the claim states it: when the request
\* fails, the invocation finishes with exactly the uncached candidates
\* showing "Error fetching explanation" and every cached candidate showing
\* its cached text, with nothing written to the cache and with the explain
\* control enabled.
C6_FailureContained ==
    [][\A id \in RunIds :
          (Finishes(id) /\ runs'[id].outcome = "error") =>
             LET r == runs'[id]
             IN /\ cacheWrites' = cacheWrites
                /\ cache' = cache
                /\ r.saved = {}
                /\ explainBtn' = "enabled"
                /\ \A i \in 1..Len(r.moves) :
                       /\ HasSlot(moveList', i)
                       /\ moveList'.items[i].text =
                             IF Has(r.cached, r.moves[i].move)
                             THEN r.cached[r.moves[i].move]
                             ELSE "Error fetching explanation"]_vars

\* C7 (output totality), as the claim states it: when an invocation
\* finishes and the position has not changed since it started, the slot of
\* each of its candidates shows an explanation, "No explanation available"
\* or "Error fetching explanation" and is not loading; after a reply, an
\* uncached move the reply does not mention shows "No explanation
\* available".
C7_OutputTotality ==
    [][\A id \in RunIds :
          (Finishes(id) /\ runs'[id].gen = generation') =>
             LET r == runs'[id]
             IN \A i \in 1..Len(r.moves) :
                   /\ HasSlot(moveList', i)
                   /\ ~moveList'.items[i].loading
                   /\ moveList'.items[i].text \notin StatusTexts
                   /\ (/\ r.outcome = "ok"
                       /\ ~Has(r.cached, r.moves[i].move)
                       /\ Lookup(r.reply, r.moves[i].move) = "")
                      => moveList'.items[i].text = "No explanation available"]_vars

\* C8 (cache-key invariance): two getCacheKey calls with the same move and
\* with FEN strings of the same board layout returned the same key, whatever
\* the other fields of the two FEN strings are.
C8_CacheKeyInvariance ==
    \A i, j \in DOMAIN keyLog :
        (/\ keyLog[i].move = keyLog[j].move
         /\ BoardOf(keyLog[i].fen) = BoardOf(keyLog[j].fen))
        => keyLog[i].key = keyLog[j].key

\* The key was computed for Black to move with all castling rights and an en
\* passant square, and then for White to move with none and later clocks.
C8_Witness ==
    /\ Len(keyLog) = 2
    /\ keyLog[1].fen = Fen("P2b")
    /\ keyLog[2].fen = Fen("P2t")
    /\ keyLog[1].fen # keyLog[2].fen
    /\ keyLog[1].move = keyLog[2].move
    /\ keyLog[1].key = keyLog[2].key

\* A call of getExplanationFromCache returns in this step.
GetReturns == call'.op = "get" /\ call'.pc = "returned" /\ call' # call

\* C9 (cache round-trip), as the claim states it: a getExplanationFromCache
\* call returns the text of the last saveExplanationToCache call that has
\* completed for the same key.
C9_RoundTrip ==
    [][(GetReturns /\ Has(lastSave, <<BoardOf(call'.fen), call'.move>>))
       => call'.result = lastSave[<<BoardOf(call'.fen), call'.move>>]]_vars

\* C9, with the conditions it holds under: when the cache client is
\* configured and the read comes back without an error, the call returns the
\* text of the last save for the same key whose write succeeded.
C9_RoundTripWhenStored ==
    [][(/\ GetReturns
        /\ supabaseClient = "client"
        /\ call'.ok
        /\ Has(lastStored, <<BoardOf(call'.fen), call'.move>>))
       => call'.result = lastStored[<<BoardOf(call'.fen), call'.move>>]]_vars

\* A read for the FEN of P2t returned the text a save for the FEN of P2 had
\* stored under the key, although a later save of another text for that key
\* has completed, its write having failed.
C9_Witness ==
    /\ call.op = "get" /\ call.pc = "returned" /\ call.ok
    /\ call.fen = Fen("P2t")
    /\ call.result = "Attacks e5"
    /\ \E row \in cache : row.fen = Fen("P2") /\ row.explanation = "Attacks e5"
    /\ Lookup(lastSave, <<Board2, call.move>>) = "Develops the knight"
    /\ Lookup(lastStored, <<Board2, call.move>>) = "Attacks e5"

(***************************************************************************)
(* SpecMiss: the page of SpecExplain, with or without a cache client, with *)
(* lookups that may come back with an error, and with an explanation       *)
(* service that is down.                                                   *)
(***************************************************************************)
InitMiss ==
    \E client \in {"null", "client"} :
        InitPage("worker", "done", "sk-key", client, CachedRows)

NextMiss ==
    \/ \E id \in timers : TimerFires(id)
    \/ handleStockfishMessage
    \/ EngineStep(Ranks, ScoresPlain, MovesExplain, DepthsExplain)
    \/ ExplainClick
    \/ \E id \in RunIds, ok \in BOOLEAN : LookupResolves(id, ok)
    \/ \E id \in RunIds : ApiFails(id)

SpecMiss == InitMiss /\ [][NextMiss]_vars

\* No slot comes to show the error text in this step.
NoNewErrorText ==
    \A i \in DOMAIN moveList'.items :
        moveList'.items[i].text = "Error fetching explanation"
           => /\ i \in DOMAIN moveList.items
              /\ moveList.items[i].text = "Error fetching explanation"

\* The lookup invocation id awaits comes back with an error in this step.
LookupFails(id) ==
    /\ runs[id].pc = "cache"
    /\ runs[id].idx \in runs'[id].failed \ runs[id].failed

\* Invocation id starts in this step.
Starts(id) == runs[id].pc \in {"idle", "done"} /\ runs'[id].pc \in {"cache", "api"}

\* C16 (cache unavailability is a plain miss): a candidate whose lookup
\* comes back with an error is added to the uncached moves, the lookup of
\* the next candidate follows, or after the last one the request, which
\* lists the candidate; without a cache client an invocation goes straight to
\* a request that lists every candidate; and in neither case a slot comes
\* to show the error text.
C16_UnavailableIsMiss ==
    /\ [][\A id \in RunIds :
             /\ LookupFails(id) =>
                   LET r  == runs[id]
                       rn == runs'[id]
                       m  == r.moves[r.idx]
                   IN /\ rn.uncached = Append(r.uncached, m)
                      /\ rn.cached = r.cached
                      /\ IF r.idx < Len(r.moves)
                         THEN rn.pc = "cache" /\ rn.idx = r.idx + 1
                         ELSE /\ rn.pc = "api"
                              /\ rn.requests = 1
                              /\ \E j \in 1..Len(rn.sent) : rn.sent[j] = m.move
                      /\ NoNewErrorText
             /\ (Starts(id) /\ supabaseClient = "null") =>
                   LET rn == runs'[id]
                   IN /\ rn.pc = "api"
                      /\ rn.cached = <<>>
                      /\ rn.uncached = rn.moves
                      /\ rn.requests = 1
                      /\ rn.sent = [i \in 1..Len(rn.moves) |-> rn.moves[i].move]
                      /\ NoNewErrorText]_vars
    /\ [](\A id \in RunIds :
             runs[id].pc = "api" =>
                \A i \in runs[id].failed :
                   \E j \in 1..Len(runs[id].sent) :
                      runs[id].sent[j] = runs[id].moves[i].move)

\* The lookup for e4 failed although the table holds its row, the lookup
\* for the second candidate was made all the same, and the request lists
\* both moves.
C16_Witness ==
    /\ supabaseClient = "client"
    /\ \E id \in RunIds :
          /\ runs[id].pc = "api"
          /\ Len(runs[id].moves) = 2
          /\ runs[id].failed = {1}
          /\ runs[id].moves[1].move = "e4"
          /\ SelectExplanation(cache, getCacheKey(runs[id].fen, "e4")) = "Opens center"
          /\ runs[id].sent = <<"e4", "Nf3">>

(***************************************************************************)
(* C17 to C20: what the handlers do with the lines of a superseded search, *)
(* under Spec.                                                             *)
(***************************************************************************)
\* C17 (a rejected line changes nothing), as the claim states it: handling
\* a progress line that lacks a field, or whose first move is not legal in
\* the position of the game, leaves analysisLines, currentDepth and what
\* is published as they were.
C17_RejectedLineChangesNothing ==
    [][(/\ Handling
        /\ Head(fromEngine).kind = "info"
        /\ \/ ~WellFormed(Head(fromEngine))
           \/ Head(fromEngine).pv[1] \notin LegalMoves(game.pos))
       => UNCHANGED <<analysisLines, currentDepth, currentAnalysis, engineDepth,
                      moveList>>]_vars

\* C18 (acceptance rule), as the claim states it: a well-formed legal line
\* below currentDepth changes nothing; one at or above it replaces the entry
\* of its own rank only and sets currentDepth to its depth; every stored
\* line has a depth of at most currentDepth, and currentDepth is 0 exactly
\* when no line was accepted since the last reset.
C18_AcceptanceRule ==
    /\ [][(/\ Handling
           /\ Head(fromEngine).kind = "info"
           /\ WellFormed(Head(fromEngine))
           /\ Head(fromEngine).pv[1] \in LegalMoves(game.pos))
          => LET m == Head(fromEngine)
             IN IF m.depth < currentDepth
                THEN UNCHANGED <<analysisLines, currentDepth, currentAnalysis,
                                 engineDepth, moveList>>
                ELSE /\ currentDepth' = m.depth
                     /\ analysisLines'[m.multipv].depth = m.depth
                     /\ analysisLines'[m.multipv].uci = m.pv[1]
                     /\ \A r \in Ranks \ {m.multipv} :
                            analysisLines'[r] = analysisLines[r]]_vars
    /\ [](/\ \A r \in Ranks : analysisLines[r].depth <= currentDepth
          /\ (currentDepth = 0) <=> (analysisLines = EmptyLines))

\* C19 (the reset is atomic with the analyze call), as the claim states it:
\* when the timer callback posts the commands for the new position,
\* analysisLines is empty and currentDepth is 0.
C19_ResetAtSend ==
    [][(nPosted' = nPosted + 3) => (analysisLines = EmptyLines /\ currentDepth = 0)]_vars

\* C20 (a superseded terminal line), as the claim states it: handling the
\* bestmove of a search that was started before the latest position-changed
\* event publishes nothing and starts no explanation run.
C20_StaleBestmoveIgnored ==
    [][(/\ Handling
        /\ Head(fromEngine).kind = "bestmove"
        /\ Head(fromEngine).gen < generation)
       => UNCHANGED <<engineDepth, moveList, currentAnalysis, runs>>]_vars

(***************************************************************************)
(* SpecLines: the page with the worker loaded and an engine that reports   *)
(* at a depth below the publish threshold, at the threshold and at the odd *)
(* depth after it, and that also posts lines without score and pv; the     *)
(* user plays moves, so that lines of a superseded search arrive too.      *)
(***************************************************************************)
DepthsLines == {9, 10, 11}

NextLines ==
    \/ \E id \in timers : TimerFires(id)
    \/ UserMoves(MaxEvents)
    \/ handleStockfishMessage
    \/ EngineStep(Ranks, ScoresPlain, MovesAgg, DepthsLines)
    \/ EngineCurrmove

SpecLines == InitLoaded /\ [][NextLines]_vars

\* The moves and evaluations of a rendered list, in display order.
Ranked(list) == [i \in 1..Len(list.items) |-> <<list.items[i].uci, list.items[i].eval>>]

\* The display shows the depth and the stored lines as they are after the step.
Republished ==
    LET shown == updateAnalysisDisplay(analysisLines', currentDepth', currentAnalysis, apiKey)
    IN /\ engineDepth' = shown.engineDepth
       /\ moveList'.kind = shown.moveList.kind
       /\ Ranked(moveList') = Ranked(shown.moveList)
       /\ currentAnalysis' = shown.currentAnalysis

\* A progress line the aggregator accepts: every field present, depth not
\* below currentDepth, first move legal in the current position.
Accepted(m) ==
    /\ m.kind = "info"
    /\ WellFormed(m)
    /\ m.depth >= currentDepth
    /\ m.pv[1] \in LegalMoves(game.pos)

\* C21: handling a line republishes the ranked list exactly when the line is
\* a bestmove line, or an accepted progress line whose depth is at least 10
\* and even; handling any other line (accepted at a depth below 10 or odd,
\* rejected, or neither info nor bestmove) leaves the depth shown, the list
\* shown and currentAnalysis as they were.
C21_PublishPolicy ==
    [][Handling =>
         LET m == Head(fromEngine)
         IN IF m.kind = "bestmove" \/ (Accepted(m) /\ m.depth >= 10 /\ m.depth % 2 = 0)
            THEN Republished
            ELSE UNCHANGED <<engineDepth, moveList, currentAnalysis>>]_vars

\* The list was published at depth 10, and a line of depth 11 has been
\* accepted since without a publish.
C21_Witness ==
    /\ engineDepth = DepthText(10)
    /\ currentDepth = 11
    /\ \E r \in Ranks : analysisLines[r] # NoLine /\ analysisLines[r].depth = 11

\* C22 (unexpected reply lines), as the claim states it: when an invocation
\* finishes after a reply, the slot of each candidate that had a cached
\* explanation shows the cached text, whatever the reply says about that
\* move, and a cache write was issued only for moves that were uncached.
C22_UnexpectedLinesIgnored ==
    [][\A id \in RunIds :
          (Finishes(id) /\ runs'[id].outcome = "ok") =>
             LET r == runs'[id]
             IN /\ \A i \in 1..Len(r.moves) :
                       (HasSlot(moveList', i) /\ Has(r.cached, r.moves[i].move))
                          => moveList'.items[i].text = r.cached[r.moves[i].move]
                /\ r.saved \subseteq {r.uncached[j].move : j \in 1..Len(r.uncached)}]_vars

(***************************************************************************)
(* SpecRanks: the page with the worker loaded and an engine that reports,  *)
(* at each depth, rank 1 and then rank 2 with two different moves; both    *)
(* depths are published.  The user plays moves.                            *)
(***************************************************************************)
NextRanks ==
    \/ \E id \in timers : TimerFires(id)
    \/ UserMoves(MaxEvents)
    \/ handleStockfishMessage
    \/ EngineStepMultiPV(ScoresPlain, UciMoves, DepthsAgg)

SpecRanks == InitLoaded /\ [][NextRanks]_vars

\* C28 (one depth per published list), as the claim states it: while the
\* page shows 'Depth d' over a ranked list, every entry of that list is a
\* line of depth d.
C28_PublishedDepthUniform ==
    \A d \in 0..GoDepth :
        (engineDepth = DepthText(d) /\ moveList.kind = "list") =>
            \A i \in 1..Len(currentAnalysis) : currentAnalysis[i].depth = d

\* C29 (no move at two ranks), as the claim states it: with an engine that
\* reports different moves for different ranks at each depth, the ranked
\* list shown never holds the same move in two of its entries.
C29_NoDuplicateMove ==
    moveList.kind = "list" =>
        \A i, j \in 1..Len(moveList.items) :
            i # j => moveList.items[i].uci # moveList.items[j].uci

(***************************************************************************)
(* SpecPipe: the page with the worker loaded, an API key stored and the    *)
(* cache configured and empty.  The user plays moves and clicks Explain    *)
(* Moves once; the engine reports both ranks at depth 10; the service      *)
(* answers or fails, and the cache writes resolve.                         *)
(***************************************************************************)
InitPipe == InitPage("worker", "done", "sk-key", "client", {})

\* The first click on #explainBtn of a behaviour.
ExplainClickOnce ==
    /\ \A id \in RunIds : runs[id].pc = "idle"
    /\ ExplainClick

NextPipe ==
    \/ \E id \in timers : TimerFires(id)
    \/ UserMoves(MaxEvents)
    \/ handleStockfishMessage
    \/ EngineStepMultiPV(ScoresPlain, UciMoves, DepthsExplain)
    \/ ExplainClickOnce
    \/ \E id \in RunIds, ok \in LookupOutcomes : LookupResolves(id, ok)
    \/ \E id \in RunIds : ApiFails(id)
    \/ \E id \in RunIds, text \in Replies : ApiReplies(id, text)
    \/ \E row \in cacheWrites, ok \in BOOLEAN : CacheWriteDone(row, ok)

SpecPipe == InitPipe /\ [][NextPipe]_vars

\* C25 (candidates of the current position), as the claim states it: when an
\* invocation of fetchExplanations starts, each of its candidates is a line
\* the engine computed for the position game.fen() returns.
C25_CandidatesOfCurrentPosition ==
    [][\A id \in RunIds :
          Starts(id) =>
             \A i \in 1..Len(runs'[id].moves) :
                 /\ runs'[id].moves[i].for = game.pos
                 /\ runs'[id].fen = Fen(game.pos)]_vars

\* The move written san is legal in position pos.
SanLegal(pos, san) == \E u \in LegalMoves(pos) : LegalSan(pos)[u] = san

\* C26 (no cache poisoning), as the claim states it: every row stored in the
\* cache or on its way there pairs a position with a move that is legal in
\* it; and each row an invocation issues is for one of its candidates that
\* the engine computed for the row's position, with the text the reply gave
\* for that move.
C26_NoCachePoisoning ==
    [][/\ \A row \in cache' \cup cacheWrites' :
             SanLegal(PositionOfFen(row.fen), row.move)
       /\ \A id \in RunIds :
             Finishes(id) =>
                \A row \in cacheWrites' \ cacheWrites :
                   \E i \in 1..Len(runs'[id].moves) :
                      LET m == runs'[id].moves[i]
                      IN /\ m.move = row.move
                         /\ m.for = PositionOfFen(row.fen)
                         /\ row.explanation = Lookup(runs'[id].reply, m.move)]_vars

\* Invocation id runs in this step: it starts, resumes after an await, or
\* finishes.
RunStep(id) == runs'[id].pc # runs[id].pc \/ runs'[id].idx # runs[id].idx

\* C27 (slot consistency), as the claim states it: when a step of an
\* invocation changes the text of display slot i, the move shown in slot i
\* is the invocation's candidate i, the one the text is about.
C27_SlotConsistency ==
    [][\A id \in RunIds :
          RunStep(id) =>
             \A i \in 1..Len(moveList'.items) :
                 (HasSlot(moveList, i) /\ moveList'.items[i].text # moveList.items[i].text)
                    => /\ i <= Len(runs'[id].moves)
                       /\ runs'[id].moves[i].uci = moveList'.items[i].uci]_vars

(***************************************************************************)
(* SpecAuto: the page with the worker loaded, no API key stored (the modal *)
(* is shown) and no cache client.  The user saves a key, checks or         *)
(* unchecks the automatic explanation and clicks Explain Moves; the engine *)
(* reports both ranks at depth 10 and finishes; the service answers or     *)
(* fails.                                                                  *)
(***************************************************************************)
KeyInputs == {"", "sk-key"}

InitAuto == InitPage("worker", "done", "", "null", {})

NextAuto ==
    \/ \E id \in timers : TimerFires(id)
    \/ handleStockfishMessage
    \/ EngineStepMultiPV(ScoresPlain, MovesExplain, DepthsExplain)
    \/ \E input \in KeyInputs : saveApiKey(input)
    \/ AutoExplainClick
    \/ ExplainClick
    \/ \E id \in RunIds : ApiFails(id)
    \/ \E id \in RunIds, text \in Replies : ApiReplies(id, text)

SpecAuto == InitAuto /\ [][NextAuto]_vars

\* C24 (superseded runs lose), as the claim states it: when an invocation
\* finishes after an invocation that started later, while it was in flight,
\* has finished, the texts of the slots stay those the later invocation
\* left.
C24_SupersededRunLoses ==
    [][\A i, j \in RunIds :
          (Finishes(j) /\ runs[i].pc = "done" /\ j \in runs[i].after) =>
             \A k \in 1..Len(moveList'.items) :
                 HasSlot(moveList, k) => moveList'.items[k].text = moveList.items[k].text]_vars

(***************************************************************************)
(* SpecWrite: the page with the worker loaded, an API key stored and the   *)
(* cache configured, holding an explanation of e4.  The engine reports     *)
(* both ranks at depth 10 and at depth 12; the user clicks Explain Moves   *)
(* once; the service answers and the cache writes succeed or fail.         *)
(***************************************************************************)
NextWrite ==
    \/ \E id \in timers : TimerFires(id)
    \/ handleStockfishMessage
    \/ EngineStepMultiPV(ScoresPlain, MovesExplain, DepthsAgg)
    \/ ExplainClickOnce
    \/ \E id \in RunIds, ok \in LookupOutcomes : LookupResolves(id, ok)
    \/ \E id \in RunIds, text \in Replies : ApiReplies(id, text)
    \/ \E row \in cacheWrites, ok \in BOOLEAN : CacheWriteDone(row, ok)

SpecWrite == InitExplain /\ [][NextWrite]_vars

\* The calls of saveExplanationToCache that invocation r made for move.
CallsFor(r, move) == {j \in 1..Len(r.calls) : r.calls[j].move = move}

\* C23 (cache write-back), as the claim states it: an invocation that
\* finishes after a reply has called saveExplanationToCache exactly once for
\* each uncached move the reply explains, with the FEN it captured when it
\* started, that move and the reply's text, and for no other move; and a
\* cache write that resolves, with or without an error, leaves every slot as
\* it is.
C23_WriteBack ==
    [][/\ \A id \in RunIds :
             (Finishes(id) /\ runs'[id].outcome = "ok") =>
                LET r == runs'[id]
                IN /\ \A i \in 1..Len(r.moves) :
                          LET move == r.moves[i].move
                          IN IF ~Has(r.cached, move) /\ Lookup(r.reply, move) # ""
                             THEN Cardinality(CallsFor(r, move)) = 1
                             ELSE CallsFor(r, move) = {}
                   /\ \A j \in 1..Len(r.calls) :
                          /\ r.calls[j].fen = r.fen
                          /\ \E i \in 1..Len(r.moves) : r.moves[i].move = r.calls[j].move
                          /\ r.calls[j].explanation = r.reply[r.calls[j].move]
                   /\ cacheWrites' \ cacheWrites \subseteq
                          {CacheRow(r.fen, r.calls[j].move, r.calls[j].explanation) :
                             j \in 1..Len(r.calls)}
       /\ (/\ \A id \in RunIds : ~RunStep(id)
           /\ cache' # cache \/ cacheWrites' # cacheWrites)
             => moveList' = moveList]_vars

\* White is better according to a stored line: the engine's score is for the
\* side to move in the position it searched.
WhiteBetter(line) ==
    IF Turn(line.for) = "w" THEN line.score[2] > 0 ELSE line.score[2] < 0

BlackBetter(line) ==
    IF Turn(line.for) = "w" THEN line.score[2] < 0 ELSE line.score[2] > 0

====
